---- MODULE Spec2Model ----
\* Confero (Astro multi-space blog): the content schema (src/content/config.ts,
\* kept as src/unnamed/part_000) and the content helpers
\* (src/utils/contentHelpers.ts, kept as src/unnamed/part_001).
\*
\* Strings that the code or its tests look into (title, description, date,
\* tags, space) are sequences of one-character strings; collection names and
\* slugs, which come from the directory and file names, are TLA+ strings.
\* A JavaScript number is [nan, t]; a Date's time value is counted in days
\* since 1970-01-01 (date-only ISO strings are UTC midnights, so the time value
\* in milliseconds is 86400000 times that count and differences keep their sign).
EXTENDS Integers, Sequences, FiniteSets, TLC

VARIABLES content, called, arg, returned, load, memo

vars == <<content, called, arg, returned, load, memo>>

\* ---------------------------------------------------------------- bounds
MaxPosts == 2
MaxSortPosts == 3

\* ------------------------------------------------------------ characters
DigitValue ==
  "0" :> 0 @@ "1" :> 1 @@ "2" :> 2 @@ "3" :> 3 @@ "4" :> 4 @@
  "5" :> 5 @@ "6" :> 6 @@ "7" :> 7 @@ "8" :> 8 @@ "9" :> 9

LowerLetters ==
  {"a", "b", "c", "d", "e", "f", "g", "h", "i", "j", "k", "l", "m",
   "n", "o", "p", "q", "r", "s", "t", "u", "v", "w", "x", "y", "z"}

IsDigit(c) == c \in DOMAIN DigitValue

DigitVal(c) == DigitValue[c]

WhiteSpace == {" ", "\t", "\n"}

\* String.prototype.trim
RECURSIVE TrimStart(_)
TrimStart(s) ==
  IF s = <<>> THEN <<>>
  ELSE IF Head(s) \in WhiteSpace THEN TrimStart(Tail(s)) ELSE s

RECURSIVE TrimEnd(_)
TrimEnd(s) ==
  IF s = <<>> THEN <<>>
  ELSE IF s[Len(s)] \in WhiteSpace THEN TrimEnd(SubSeq(s, 1, Len(s) - 1)) ELSE s

Trim(s) == TrimEnd(TrimStart(s))

\* /^[a-z0-9]+(-[a-z0-9]+)*$/ : non-empty runs of [a-z0-9] joined by single "-"
TagPatternTest(s) ==
  /\ Len(s) > 0
  /\ \A i \in 1..Len(s) : s[i] \in LowerLetters \/ IsDigit(s[i]) \/ s[i] = "-"
  /\ s[1] # "-"
  /\ s[Len(s)] # "-"
  /\ \A i \in 1..(Len(s) - 1) : ~(s[i] = "-" /\ s[i + 1] = "-")

\* --------------------------------------------------------------- numbers
NaN == [nan |-> TRUE, t |-> 0]

Num(n) == [nan |-> FALSE, t |-> n]

\* a - b on JavaScript numbers
NumSub(a, b) == IF a.nan \/ b.nan THEN NaN ELSE Num(a.t - b.t)

\* a >= b on JavaScript numbers: false as soon as one side is NaN
NumGe(a, b) == ~a.nan /\ ~b.nan /\ a.t >= b.t

\* ----------------------------------------------------------------- dates
IsLeap(y) == (y % 4 = 0 /\ y % 100 # 0) \/ y % 400 = 0

DaysInMonth(y, m) ==
  IF m = 2 THEN (IF IsLeap(y) THEN 29 ELSE 28)
  ELSE IF m \in {4, 6, 9, 11} THEN 30 ELSE 31

\* days of a common year before the first of each month
CumulativeDays == <<0, 31, 59, 90, 120, 151, 181, 212, 243, 273, 304, 334>>

DaysBeforeMonth(y, m) ==
  CumulativeDays[m] + (IF m > 2 /\ IsLeap(y) THEN 1 ELSE 0)

\* days from 1970-01-01 to the first of January of year y (y >= 1970)
DaysBeforeYear(y) ==
  365 * (y - 1970) + ((y - 1969) \div 4) - ((y - 1901) \div 100)
    + ((y - 1601) \div 400)

\* the time value of year y, month m, day d, or NaN when there is no such day
MakeDay(y, m, d) ==
  IF y >= 1970 /\ m \in 1..12 /\ d >= 1 /\ d <= DaysInMonth(y, m)
  THEN Num(DaysBeforeYear(y) + DaysBeforeMonth(y, m) + (d - 1))
  ELSE NaN

\* new Date(str) for the date-only ISO form YYYY-MM-DD; every other string
\* of DateStrings is one no engine parses, and gives an Invalid Date.
NewDate(str) ==
  IF /\ Len(str) = 10
     /\ str[5] = "-"
     /\ str[8] = "-"
     /\ \A i \in {1, 2, 3, 4, 6, 7, 9, 10} : IsDigit(str[i])
  THEN MakeDay(1000 * DigitVal(str[1]) + 100 * DigitVal(str[2])
                 + 10 * DigitVal(str[3]) + DigitVal(str[4]),
               10 * DigitVal(str[6]) + DigitVal(str[7]),
               10 * DigitVal(str[9]) + DigitVal(str[10]))
  ELSE NaN

\* Date.prototype.getTime (new Date(aDate) copies the time value)
GetTime(date) == date

\* ------------------------------------------------- frontmatter and schema
\* A raw frontmatter value: its JavaScript type and its payload.
Undefined == [type |-> "undefined", v |-> <<>>]

Str(s) == [type |-> "string", v |-> s]

Arr(a) == [type |-> "array", v |-> a]

\* a YAML number where a string is expected, e.g. `title: 42`
Number42 == [type |-> "number", v |-> <<"4", "2">>]

\* z.string()
ZString(x) == IF x.type = "string" THEN [ok |-> TRUE, v |-> x.v]
              ELSE [ok |-> FALSE, v |-> <<>>]

\* z.string().transform(str => new Date(str))
ZDate(x) == IF x.type = "string" THEN [ok |-> TRUE, v |-> NewDate(x.v)]
            ELSE [ok |-> FALSE, v |-> NaN]

\* z.array(z.string()).default([])
ZTags(x) ==
  IF x.type = "undefined" THEN [ok |-> TRUE, v |-> <<>>]
  ELSE IF x.type = "array" THEN [ok |-> TRUE, v |-> x.v]
  ELSE [ok |-> FALSE, v |-> <<>>]

\* a space key without its default: z.string()
ZSpaceRequired(x) == ZString(x)

\* z.string().default('blog')
ZSpace(x) ==
  IF x.type = "undefined" THEN [ok |-> TRUE, v |-> <<"b", "l", "o", "g">>]
  ELSE IF x.type = "string" THEN [ok |-> TRUE, v |-> x.v]
  ELSE [ok |-> FALSE, v |-> <<>>]

\* blogCollection.schema: z.object({...}) applied to one entry's frontmatter
SchemaParse(fm) ==
  LET title == ZString(fm.title)
      description == ZString(fm.description)
      date == ZDate(fm.date)
      tags == ZTags(fm.tags)
      space == ZSpace(fm.space)
  IN [ok |-> title.ok /\ description.ok /\ date.ok /\ tags.ok /\ space.ok,
      data |-> [title |-> title.v, description |-> description.v,
                date |-> date.v, tags |-> tags.v, space |-> space.v]]

\* the five collections of `collections`, all with blogCollection's schema
collections == <<"blog", "ml", "transformers", "web", "notes">>

Collections == {collections[i] : i \in 1..Len(collections)}

\* getCollection(name): the entries of one content directory, each with its
\* slug and its parsed data; it rejects when an entry fails the schema.
getCollection(store, name) ==
  LET files == store[name]
      parsed == [i \in 1..Len(files) |-> SchemaParse(files[i].frontmatter)]
  IN IF \A i \in 1..Len(files) : parsed[i].ok
     THEN [threw |-> FALSE,
           posts |-> [i \in 1..Len(files) |->
                        [collection |-> name, slug |-> files[i].slug,
                         data |-> parsed[i].data]]]
     ELSE [threw |-> TRUE, posts |-> <<>>]

\* ------------------------------------------------------------------ sort
\* a comparefn that sorts oldest first: a's time value minus b's
DateCompareAscending(a, b) ==
  NumSub(GetTime(a.data.date), GetTime(b.data.date))

\* the comparefn of getAllPosts: b's time value minus a's
DateCompare(a, b) ==
  NumSub(GetTime(b.data.date), GetTime(a.data.date))

\* Array.prototype.sort's use of the comparefn: a NaN result counts as +0
SortCompare(a, b) ==
  LET v == DateCompare(a, b) IN IF v.nan THEN 0 ELSE v.t

\* Array.prototype.sort as Node's engine runs it on fewer than 64 elements:
\* the leading run is found (and reversed when strictly descending), the rest
\* is placed by binary insertion.
RECURSIVE RunLength(_, _, _)
RunLength(arr, idx, isDescending) ==
  IF idx > Len(arr) THEN idx - 1
  ELSE LET order == SortCompare(arr[idx], arr[idx - 1])
       IN IF (isDescending /\ order >= 0) \/ (~isDescending /\ order < 0)
          THEN idx - 1
          ELSE RunLength(arr, idx + 1, isDescending)

Reverse(arr) == [i \in 1..Len(arr) |-> arr[Len(arr) + 1 - i]]

RECURSIVE BinarySearch(_, _, _, _)
BinarySearch(arr, pivot, left, right) ==
  IF left >= right THEN left
  ELSE LET mid == left + ((right - left) \div 2)
       IN IF SortCompare(pivot, arr[mid]) < 0
          THEN BinarySearch(arr, pivot, left, mid)
          ELSE BinarySearch(arr, pivot, mid + 1, right)

RECURSIVE BinaryInsertionSort(_, _)
BinaryInsertionSort(arr, start) ==
  IF start > Len(arr) THEN arr
  ELSE LET pivot == arr[start]
           left == BinarySearch(arr, pivot, 1, start)
           moved == SubSeq(arr, 1, left - 1) \o <<pivot>>
                      \o SubSeq(arr, left, start - 1)
                      \o SubSeq(arr, start + 1, Len(arr))
       IN BinaryInsertionSort(moved, start + 1)

ArraySort(arr) ==
  IF Len(arr) < 2 THEN arr
  ELSE LET isDescending == SortCompare(arr[2], arr[1]) < 0
           run == RunLength(arr, 3, isDescending)
           made == IF isDescending
                   THEN Reverse(SubSeq(arr, 1, run)) \o SubSeq(arr, run + 1, Len(arr))
                   ELSE arr
       IN BinaryInsertionSort(made, run + 1)

\* ---------------------------------------------------------- getAllPosts
\* the for loop: each collection is awaited in turn, its posts are pushed,
\* and a rejection is caught and dropped
RECURSIVE LoadLoop(_, _, _)
LoadLoop(store, i, allPosts) ==
  IF i > Len(collections) THEN allPosts
  ELSE LET got == getCollection(store, collections[i])
       IN LoadLoop(store, i + 1,
                   IF got.threw THEN allPosts ELSE allPosts \o got.posts)

getAllPosts(store) == ArraySort(LoadLoop(store, 1, <<>>))

\* ------------------------------------------------------- the content store
\* the ids of src/spaces.json
SpaceCatalogIds ==
  {<<"m", "l">>, <<"t", "r", "a", "n", "s", "f", "o", "r", "m", "e", "r", "s">>,
   <<"w", "e", "b">>, <<"n", "o", "t", "e", "s">>, <<"b", "l", "o", "g">>}

Jan == <<"2", "0", "2", "4", "-", "0", "1", "-", "0", "1">>

Feb == <<"2", "0", "2", "4", "-", "0", "2", "-", "0", "1">>

Soon == <<"s", "o", "o", "n">>

DateStrings == {Jan, Feb, Soon}

\* file names of a content directory; the slug of an entry is its file name
Slugs == {"post-a", "post-b"}

Frontmatter(date, tags, space) ==
  [title |-> Str(<<"T">>), description |-> Str(<<"D">>), date |-> Str(date),
   tags |-> Arr(tags), space |-> Str(space)]

\* the two posts of the documented scenario
GoodFrontmatter ==
  {Frontmatter(Jan, <<<<"x">>>>, <<"m", "l">>),
   Frontmatter(Feb, <<<<"x">>, <<"y">>>>, <<"w", "e", "b">>)}

BaseFrontmatter == Frontmatter(Jan, <<<<"x">>>>, <<"m", "l">>)

\* what an author can get wrong, one field at a time
OddFrontmatter ==
  {[BaseFrontmatter EXCEPT !.title = Undefined],
   [BaseFrontmatter EXCEPT !.title = Number42],
   [BaseFrontmatter EXCEPT !.title = Str(<<" ">>)],
   [BaseFrontmatter EXCEPT !.description = Str(<<>>)],
   [BaseFrontmatter EXCEPT !.date = Str(Soon)],
   [BaseFrontmatter EXCEPT !.tags = Undefined],
   [BaseFrontmatter EXCEPT !.tags = Arr(<<<<"x">>, <<"x">>>>)],
   [BaseFrontmatter EXCEPT !.tags = Arr(<<<<"M", "L">>>>)],
   [BaseFrontmatter EXCEPT !.tags = Arr(<<<<>>>>)],
   [BaseFrontmatter EXCEPT !.space = Undefined],
   [BaseFrontmatter EXCEPT !.space = Str(<<"u", "n", "k", "n", "o", "w", "n">>)]}

AnyFrontmatter == GoodFrontmatter \cup OddFrontmatter

\* frontmatter that differs in the date only, for the runs that look at order
DatedFrontmatter == {Frontmatter(d, <<<<"x">>>>, <<"m", "l">>) : d \in DateStrings}

RECURSIVE CountFiles(_, _)
CountFiles(store, i) ==
  IF i > Len(collections) THEN 0
  ELSE Len(store[collections[i]]) + CountFiles(store, i + 1)

\* ------------------------------------------------------------------ state
\* content:  per collection, the entries of its directory (file slug and
\*           frontmatter) in the order getCollection lists them
\* called:   the helper that was called last ("none" before the build)
\* arg:      the argument it was called with
\* returned: how its promise settled, and the value
\* load:     a getAllPosts call that runs step by step: its place (pc), the
\*           number of getCollection calls made so far (reads), the
\*           collections whose read has not settled yet (inflight) and the
\*           local array allPosts
\* memo:     a call whose result the caller has kept, to compare a later
\*           call with it, and whether a different call was made since
Pending == [status |-> "pending", value |-> <<>>]

Fulfilled(v) == [status |-> "fulfilled", value |-> v]

\* an argument: a string (v), a number (n), undefined (left out), or none
NoArg == [type |-> "none", v |-> <<>>, n |-> 0]

StrArg(str) == [type |-> "string", v |-> str, n |-> 0]

NumArg(k) == [type |-> "number", v |-> <<>>, n |-> k]

UndefinedArg == [type |-> "undefined", v |-> <<>>, n |-> 0]

\* no getAllPosts call is running step by step
Idle == [pc |-> "idle", reads |-> 0, inflight |-> {}, allPosts |-> <<>>]

\* the caller has kept no result
NoMemo ==
  [called |-> "none", arg |-> NoArg, returned |-> Pending, between |-> FALSE]

Init ==
  /\ content = [c \in Collections |-> <<>>]
  /\ called = "none"
  /\ arg = NoArg
  /\ returned = Pending
  /\ load = Idle
  /\ memo = NoMemo

\* a directory holds no two files of the same name
CanWrite(c, slug) == \A i \in 1..Len(content[c]) : content[c][i].slug # slug

Written(c, slug, fm) ==
  [content EXCEPT ![c] = Append(@, [slug |-> slug, frontmatter |-> fm])]

\* An author adds an MDX file to a content directory before the build starts.
AddFile ==
  /\ called = "none"
  /\ CountFiles(content, 1) < MaxPosts
  /\ \E c \in Collections, slug \in Slugs, fm \in AnyFrontmatter :
       /\ CanWrite(c, slug)
       /\ content' = Written(c, slug, fm)
  /\ UNCHANGED <<called, arg, returned, load, memo>>

\* The same, for the runs that look at order: the files differ in their dates.
AddDatedFile ==
  /\ called = "none"
  /\ CountFiles(content, 1) < MaxSortPosts
  /\ \E c \in Collections, slug \in Slugs, fm \in DatedFrontmatter :
       /\ CanWrite(c, slug)
       /\ content' = Written(c, slug, fm)
  /\ UNCHANGED <<called, arg, returned, load, memo>>

\* a getAllPosts that works on the store's own arrays and leaves the listing
\* of the blog directory reversed
GetAllPostsInPlace ==
  /\ called' = "getAllPosts"
  /\ arg' = NoArg
  /\ returned' = Fulfilled(getAllPosts(content))
  /\ content' = [content EXCEPT !["blog"] = Reverse(@)]
  /\ UNCHANGED <<load, memo>>

\* await getAllPosts(): the promise never rejects, every getCollection
\* rejection is caught inside the loop
GetAllPosts ==
  /\ called' = "getAllPosts"
  /\ arg' = NoArg
  /\ returned' = Fulfilled(getAllPosts(content))
  /\ UNCHANGED <<content, load, memo>>

Next == AddFile \/ GetAllPosts

Spec == Init /\ [][Next]_vars

NextSort == AddDatedFile \/ GetAllPosts

SpecSort == Init /\ [][NextSort]_vars

\* ----------------------------------------------------------- properties
\* getAllPosts has returned; posts is the list it returned
Loaded == called = "getAllPosts" /\ returned.status = "fulfilled"

posts == returned.value

\* C1: the list loadAll returns is sorted non-increasing by date: each post's
\* date is >= the date of the post after it.
C1_SortedByDate ==
  Loaded =>
    \A i \in 1..(Len(posts) - 1) :
      NumGe(GetTime(posts[i].data.date), GetTime(posts[i + 1].data.date))

\* C2: the list loadAll returns is a permutation of the concatenation of the
\* five content groups: every file of every group is in it exactly once, and
\* it holds nothing else.
C2_PermutationOfGroups ==
  Loaded =>
    /\ Len(posts) = CountFiles(content, 1)
    /\ \A c \in Collections :
         \A i \in 1..Len(content[c]) :
           Cardinality({j \in 1..Len(posts) :
                          /\ posts[j].collection = c
                          /\ posts[j].slug = content[c][i].slug}) = 1

\* C3: every post loadAll returns has a space that is an id of the Space
\* Catalog (a post with another space makes the load fail).
C3_SpaceInCatalog ==
  Loaded => \A j \in 1..Len(posts) : posts[j].data.space \in SpaceCatalogIds

\* C4: every tag of every post loadAll returns matches
\* ^[a-z0-9]+(-[a-z0-9]+)*$ (a post with another tag makes the load fail).
C4_TagsMatchPattern ==
  Loaded =>
    \A j \in 1..Len(posts) :
      \A k \in 1..Len(posts[j].data.tags) : TagPatternTest(posts[j].data.tags[k])

\* C5: no two distinct posts loadAll returns share a slug, also across
\* content groups.
C5_SlugsUnique ==
  Loaded =>
    \A i, j \in 1..Len(posts) : i # j => posts[i].slug # posts[j].slug

\* C6: every post loadAll returns carries a valid date, never an invalid
\* (NaN) one (a date string that does not parse makes the load fail).
C6_DatesValid ==
  Loaded => \A j \in 1..Len(posts) : ~GetTime(posts[j].data.date).nan

\* C7: no partial success: loadAll never returns a list when the load of one
\* of the content groups failed.
C7_NoPartialSuccess ==
  Loaded => \A c \in Collections : ~getCollection(content, c).threw

\* C8: every post loadAll returns has at least one tag.
C8_TagsNonEmpty ==
  Loaded => \A j \in 1..Len(posts) : Len(posts[j].data.tags) > 0

\* C9: no post loadAll returns lists the same tag twice.
C9_NoDuplicateTags ==
  Loaded =>
    \A j \in 1..Len(posts) :
      \A k, l \in 1..Len(posts[j].data.tags) :
        k # l => posts[j].data.tags[k] # posts[j].data.tags[l]

\* C10: every post loadAll returns has a title and a description that are
\* non-empty after trimming whitespace.
C10_TitleAndDescriptionNonEmpty ==
  Loaded =>
    \A j \in 1..Len(posts) :
      /\ Len(Trim(posts[j].data.title)) > 0
      /\ Len(Trim(posts[j].data.description)) > 0

\* ------------------------------------------------------ getPostsBySpace
\* a getPostsBySpace that filters the collections' entries as read, unsorted
getPostsBySpaceUnsorted(store, space) ==
  SelectSeq(LoadLoop(store, 1, <<>>), LAMBDA post : post.data.space = space)

\* allPosts.filter(post => post.data.space === space)
getPostsBySpace(store, space) ==
  SelectSeq(getAllPosts(store), LAMBDA post : post.data.space = space)

Unknown == <<"u", "n", "k", "n", "o", "w", "n">>

\* frontmatter that differs in space and date
SpaceFrontmatter ==
  {Frontmatter(Jan, <<<<"x">>>>, <<"m", "l">>),
   Frontmatter(Feb, <<<<"x">>>>, <<"m", "l">>),
   Frontmatter(Jan, <<<<"x">>>>, <<"w", "e", "b">>),
   Frontmatter(Feb, <<<<"x">>>>, Unknown)}

\* the space ids a page asks for
SpaceArgs == SpaceCatalogIds \cup {Unknown}

MaxSpacePosts == 2

AddSpaceFile ==
  /\ called = "none"
  /\ CountFiles(content, 1) < MaxSpacePosts
  /\ \E c \in Collections, slug \in Slugs, fm \in SpaceFrontmatter :
       /\ CanWrite(c, slug)
       /\ content' = Written(c, slug, fm)
  /\ UNCHANGED <<called, arg, returned, load, memo>>

\* await getPostsBySpace(space)
GetPostsBySpace ==
  \E space \in SpaceArgs :
    /\ called' = "getPostsBySpace"
    /\ arg' = StrArg(space)
    /\ returned' = Fulfilled(getPostsBySpace(content, space))
    /\ UNCHANGED <<content, load, memo>>

NextSpace == AddSpaceFile \/ GetPostsBySpace

SpecSpace == Init /\ [][NextSpace]_vars

\* result is seq restricted to its positions in kept, order kept
IsRestriction(result, seq, kept) ==
  /\ Len(result) = Cardinality(kept)
  /\ \A k \in 1..Len(result) :
       \E j \in kept : /\ Cardinality({i \in kept : i < j}) = k - 1
                       /\ result[k] = seq[j]

\* C11: getPostsBySpace(spaceId) returns exactly the posts of loadAll() whose
\* space equals spaceId, none omitted, in the order they have in loadAll().
C11_FilterBySpaceExact ==
  called = "getPostsBySpace" =>
    \A all \in {getAllPosts(content)} :
      IsRestriction(returned.value, all,
                    {j \in 1..Len(all) : all[j].data.space = arg.v})

\* a space page that lists one of the two loaded posts
C11_Witness ==
  /\ called = "getPostsBySpace"
  /\ Len(returned.value) = 1
  /\ CountFiles(content, 1) = 2
  /\ Len(getAllPosts(content)) = 2

\* the elements of a sequence
Elements(seq) == {seq[i] : i \in 1..Len(seq)}

\* C12: the space pages of the catalog partition loadAll(): every loaded post
\* is on the page of exactly one catalog space, none is missing from all.
C12_SpacePagesPartition ==
  called = "getPostsBySpace" =>
    \A all \in {getAllPosts(content)} :
      \A j \in 1..Len(all) :
        Cardinality({space \in SpaceCatalogIds :
                       all[j] \in Elements(getPostsBySpace(content, space))}) = 1

\* --------------------------------------------- getPostsByTag, getAllTags
\* Array.prototype.includes on an array of strings
Includes(arr, x) == \E i \in 1..Len(arr) : arr[i] = x

\* a getPostsByTag that looks at the first tag of a post only
getPostsByTagFirst(store, tag) ==
  SelectSeq(getAllPosts(store),
            LAMBDA post : Len(post.data.tags) > 0 /\ post.data.tags[1] = tag)

\* a getPostsByTag that takes a tag starting with the argument for a match
getPostsByTagPrefix(store, tag) ==
  SelectSeq(getAllPosts(store),
            LAMBDA post :
              \E i \in 1..Len(post.data.tags) :
                /\ Len(tag) <= Len(post.data.tags[i])
                /\ SubSeq(post.data.tags[i], 1, Len(tag)) = tag)

\* allPosts.filter(post => post.data.tags.includes(tag))
getPostsByTag(store, tag) ==
  SelectSeq(getAllPosts(store), LAMBDA post : Includes(post.data.tags, tag))

\* the UTF-16 code unit of a character
CharCode ==
  " " :> 32 @@ "-" :> 45 @@ "0" :> 48 @@ "1" :> 49 @@ "2" :> 50 @@
  "3" :> 51 @@ "4" :> 52 @@ "5" :> 53 @@ "6" :> 54 @@ "7" :> 55 @@
  "8" :> 56 @@ "9" :> 57 @@ "A" :> 65 @@ "B" :> 66 @@ "C" :> 67 @@
  "D" :> 68 @@ "E" :> 69 @@ "F" :> 70 @@ "G" :> 71 @@ "H" :> 72 @@
  "I" :> 73 @@ "J" :> 74 @@ "K" :> 75 @@ "L" :> 76 @@ "M" :> 77 @@
  "N" :> 78 @@ "O" :> 79 @@ "P" :> 80 @@ "Q" :> 81 @@ "R" :> 82 @@
  "S" :> 83 @@ "T" :> 84 @@ "U" :> 85 @@ "V" :> 86 @@ "W" :> 87 @@
  "X" :> 88 @@ "Y" :> 89 @@ "Z" :> 90 @@ "a" :> 97 @@ "b" :> 98 @@
  "c" :> 99 @@ "d" :> 100 @@ "e" :> 101 @@ "f" :> 102 @@ "g" :> 103 @@
  "h" :> 104 @@ "i" :> 105 @@ "j" :> 106 @@ "k" :> 107 @@ "l" :> 108 @@
  "m" :> 109 @@ "n" :> 110 @@ "o" :> 111 @@ "p" :> 112 @@ "q" :> 113 @@
  "r" :> 114 @@ "s" :> 115 @@ "t" :> 116 @@ "u" :> 117 @@ "v" :> 118 @@
  "w" :> 119 @@ "x" :> 120 @@ "y" :> 121 @@ "z" :> 122

\* a < b on strings: the first differing code unit decides, a proper prefix
\* is smaller
RECURSIVE StringLess(_, _)
StringLess(a, b) ==
  IF b = <<>> THEN FALSE
  ELSE IF a = <<>> THEN TRUE
  ELSE IF Head(a) = Head(b) THEN StringLess(Tail(a), Tail(b))
  ELSE CharCode[Head(a)] < CharCode[Head(b)]

\* tags.add(tag) on a Set, kept in insertion order
SetAdd(set, x) == IF Includes(set, x) THEN set ELSE Append(set, x)

\* post.data.tags.forEach(tag => tags.add(tag))
RECURSIVE AddTags(_, _, _)
AddTags(set, tags, k) ==
  IF k > Len(tags) THEN set ELSE AddTags(SetAdd(set, tags[k]), tags, k + 1)

\* allPosts.forEach(post => ...)
RECURSIVE AddPostsTags(_, _, _)
AddPostsTags(set, allPosts, j) ==
  IF j > Len(allPosts) THEN set
  ELSE AddPostsTags(AddTags(set, allPosts[j].data.tags, 1), allPosts, j + 1)

\* Array.prototype.sort() without comparefn on distinct strings: ascending by
\* code units; each element is inserted after the smaller ones before it
RECURSIVE InsertString(_, _)
InsertString(sorted, x) ==
  IF sorted = <<>> THEN <<x>>
  ELSE IF StringLess(x, Head(sorted)) THEN <<x>> \o sorted
  ELSE <<Head(sorted)>> \o InsertString(Tail(sorted), x)

RECURSIVE SortStrings(_, _, _)
SortStrings(sorted, arr, k) ==
  IF k > Len(arr) THEN sorted
  ELSE SortStrings(InsertString(sorted, arr[k]), arr, k + 1)

\* a collectTags that returns the tags in the order the Set met them
collectTagsUnsorted(allPosts) == AddPostsTags(<<>>, allPosts, 1)

\* the body of getAllTags after its load: the Set of tags, then
\* Array.from(tags).sort()
collectTags(allPosts) == SortStrings(<<>>, AddPostsTags(<<>>, allPosts, 1), 1)

getAllTags(store) == collectTags(getAllPosts(store))

\* frontmatter that differs in tags and date
TagFrontmatter ==
  {Frontmatter(Jan, <<<<"x">>>>, <<"m", "l">>),
   Frontmatter(Feb, <<<<"y">>, <<"x">>>>, <<"m", "l">>),
   Frontmatter(Jan, <<<<"x", "y">>>>, <<"m", "l">>),
   Frontmatter(Feb, <<<<"X">>>>, <<"m", "l">>)}

\* the tags a page asks for
TagArgs == {<<"x">>, <<"y">>, <<"x", "y">>, <<"X">>}

MaxTagPosts == 2

AddTagFile ==
  /\ called = "none"
  /\ CountFiles(content, 1) < MaxTagPosts
  /\ \E c \in Collections, slug \in Slugs, fm \in TagFrontmatter :
       /\ CanWrite(c, slug)
       /\ content' = Written(c, slug, fm)
  /\ UNCHANGED <<called, arg, returned, load, memo>>

\* await getPostsByTag(tag)
GetPostsByTag ==
  \E tag \in TagArgs :
    /\ called' = "getPostsByTag"
    /\ arg' = StrArg(tag)
    /\ returned' = Fulfilled(getPostsByTag(content, tag))
    /\ UNCHANGED <<content, load, memo>>

\* await getAllTags()
GetAllTags ==
  /\ called' = "getAllTags"
  /\ arg' = NoArg
  /\ returned' = Fulfilled(getAllTags(content))
  /\ UNCHANGED <<content, load, memo>>

NextTags == AddTagFile \/ GetPostsByTag \/ GetAllTags

SpecTags == Init /\ [][NextTags]_vars

\* C13: getPostsByTag(tag) returns exactly the posts of loadAll() whose tags
\* hold tag as an exact, case-sensitive element, in the order of loadAll().
C13_FilterByTagExact ==
  called = "getPostsByTag" =>
    \A all \in {getAllPosts(content)} :
      IsRestriction(returned.value, all,
                    {j \in 1..Len(all) : arg.v \in Elements(all[j].data.tags)})

\* the page of tag x leaves out a post tagged xy and keeps a post tagged x
C13_Witness ==
  /\ called = "getPostsByTag"
  /\ arg.v = <<"x">>
  /\ Len(returned.value) = 1
  /\ \E c \in Collections :
       \E i \in 1..Len(content[c]) :
         content[c][i].frontmatter.tags = Arr(<<<<"x", "y">>>>)

\* the tags that occur on a loaded post
LoadedTags(store) ==
  UNION {Elements(post.data.tags) : post \in Elements(getAllPosts(store))}

\* C14: getAllTags returns exactly the tags that occur on a loaded post, each
\* once, in strictly ascending lexicographic order.
C14_AllTagsSortedSet ==
  called = "getAllTags" =>
    /\ Elements(returned.value) = LoadedTags(content)
    /\ \A k \in 1..(Len(returned.value) - 1) :
         StringLess(returned.value[k], returned.value[k + 1])

\* a tag shared by two posts is listed once, and y, met before x, after it
C14_Witness ==
  /\ called = "getAllTags"
  /\ returned.value = <<<<"x">>, <<"y">>>>
  /\ CountFiles(content, 1) = 2
  /\ collectTagsUnsorted(getAllPosts(content)) = <<<<"y">>, <<"x">>>>

\* C15: every tag t of getAllTags() has a non-empty page getPostsByTag(t),
\* and the tags collected from that page contain t.
C15_EveryTagHasPosts ==
  called = "getAllTags" =>
    \A k \in 1..Len(returned.value) :
      \A page \in {getPostsByTag(content, returned.value[k])} :
        /\ Len(page) > 0
        /\ returned.value[k] \in Elements(collectTags(page))

\* two tags are listed, one of them the second tag of its only post
C15_Witness ==
  /\ called = "getAllTags"
  /\ returned.value = <<<<"x">>, <<"y">>>>
  /\ CountFiles(content, 1) = 1

\* --------------------------------------------------------- getLatestPosts
\* arr.slice(0, end): a negative end counts from the end of arr, and the end
\* is clamped to 0..arr.length
SliceFromZero(arr, end) ==
  LET len == Len(arr)
      final == IF end < 0 THEN (IF len + end > 0 THEN len + end ELSE 0)
               ELSE (IF end < len THEN end ELSE len)
  IN SubSeq(arr, 1, final)

\* limit = 5
DefaultLimit == 5

\* a getLatestPosts that skips the first post: allPosts.slice(1, limit)
getLatestPostsAfterFirst(store, limit) ==
  LET first == SliceFromZero(getAllPosts(store),
                             IF limit.type = "undefined" THEN DefaultLimit
                             ELSE limit.n)
  IN IF first = <<>> THEN <<>> ELSE Tail(first)

\* getLatestPosts(limit = 5): allPosts.slice(0, limit)
getLatestPosts(store, limit) ==
  SliceFromZero(getAllPosts(store),
                IF limit.type = "undefined" THEN DefaultLimit ELSE limit.n)

\* the files of the feed scenario: every collection may hold post-a, dated
\* January; blog and ml may also hold post-b, dated February
FeedFiles(c) ==
  {[slug |-> "post-a", frontmatter |-> Frontmatter(Jan, <<<<"x">>>>, <<"m", "l">>)]}
  \cup (IF c \in {"blog", "ml"}
        THEN {[slug |-> "post-b",
               frontmatter |-> Frontmatter(Feb, <<<<"x">>>>, <<"m", "l">>)]}
        ELSE {})

MaxFeedPosts == 6

MaxLimit == 6

MaxNegLimit == 1

\* the limits a page passes: none, or an integer
LimitArgs == {UndefinedArg} \cup {NumArg(k) : k \in (0 - MaxNegLimit)..MaxLimit}

AddFeedFile ==
  /\ called = "none"
  /\ CountFiles(content, 1) < MaxFeedPosts
  /\ \E c \in Collections :
       \E file \in FeedFiles(c) :
         /\ CanWrite(c, file.slug)
         /\ content' = Written(c, file.slug, file.frontmatter)
  /\ UNCHANGED <<called, arg, returned, load, memo>>

\* await getLatestPosts(limit)
GetLatestPosts ==
  \E limit \in LimitArgs :
    /\ called' = "getLatestPosts"
    /\ arg' = limit
    /\ returned' = Fulfilled(getLatestPosts(content, limit))
    /\ UNCHANGED <<content, load, memo>>

NextFeed == AddFeedFile \/ GetLatestPosts

SpecFeed == Init /\ [][NextFeed]_vars

\* the homepage feed over corpora with valid and invalid dates
NextHome == AddDatedFile \/ GetLatestPosts

SpecHome == Init /\ [][NextHome]_vars

\* C16: for a limit >= 0, getLatestPosts returns the first min(limit, n)
\* posts of loadAll() in their order, n being the number of loaded posts; the
\* limit left out counts as 5, and a limit above n returns all n posts.
C16_LatestIsPrefix ==
  (called = "getLatestPosts" /\ (arg.type = "undefined" \/ arg.n >= 0)) =>
    \A all \in {getAllPosts(content)} :
      \A limit \in {IF arg.type = "undefined" THEN 5 ELSE arg.n} :
        /\ Len(returned.value) = (IF limit < Len(all) THEN limit ELSE Len(all))
        /\ \A k \in 1..Len(returned.value) : returned.value[k] = all[k]

\* six posts are loaded and the feed, asked without a limit, holds five
C16_Witness ==
  /\ called = "getLatestPosts"
  /\ arg.type = "undefined"
  /\ Len(getAllPosts(content)) = 6
  /\ Len(returned.value) = 5

\* a is strictly later than b
Later(a, b) ==
  /\ ~GetTime(a.data.date).nan
  /\ ~GetTime(b.data.date).nan
  /\ GetTime(a.data.date).t > GetTime(b.data.date).t

\* C17: the feed getLatestPosts(N), N >= 0, holds the N most recent posts: no
\* post left out of the feed is dated strictly later than a post in the feed.
C17_FeedHoldsMostRecent ==
  (called = "getLatestPosts" /\ (arg.type = "undefined" \/ arg.n >= 0)) =>
    \A all \in {getAllPosts(content)} :
      \A i \in 1..Len(returned.value) :
        \A j \in (Len(returned.value) + 1)..Len(all) :
          ~Later(all[j], returned.value[i])

\* ---------------------------------------------------------------- RSS GET
\* an item that carries the post's title as its description
RssItemTitleTwice(post) ==
  [title |-> post.data.title, pubDate |-> post.data.date,
   description |-> post.data.title, link |-> "/posts/" \o post.slug]

\* posts.map's callback: one RSS item of a post
RssItem(post) ==
  [title |-> post.data.title, pubDate |-> post.data.date,
   description |-> post.data.description, link |-> "/posts/" \o post.slug]

\* GET: the options handed to rss(), items = posts.map(...)
GET(store) ==
  LET allPosts == getAllPosts(store)
  IN [title |-> "Confero - Multi-Space Blog",
      description |-> "Explore knowledge across multiple disciplines through interconnected spaces.",
      items |-> [i \in 1..Len(allPosts) |-> RssItem(allPosts[i])],
      customData |-> "<language>en-us</language>"]

\* frontmatter that differs in title, description and date
RssFrontmatter ==
  {[Frontmatter(Jan, <<<<"x">>>>, <<"m", "l">>)
      EXCEPT !.title = Str(<<"A">>), !.description = Str(<<"a">>)],
   [Frontmatter(Feb, <<<<"x">>>>, <<"m", "l">>)
      EXCEPT !.title = Str(<<"B">>), !.description = Str(<<"b">>)],
   [Frontmatter(Feb, <<<<"x">>>>, <<"m", "l">>)
      EXCEPT !.title = Str(<<"A">>), !.description = Str(<<"b">>)]}

MaxRssPosts == 2

AddRssFile ==
  /\ called = "none"
  /\ CountFiles(content, 1) < MaxRssPosts
  /\ \E c \in Collections, slug \in Slugs, fm \in RssFrontmatter :
       /\ CanWrite(c, slug)
       /\ content' = Written(c, slug, fm)
  /\ UNCHANGED <<called, arg, returned, load, memo>>

\* a request for /rss.xml: await GET(context), up to the call of rss()
GetRss ==
  /\ called' = "GET"
  /\ arg' = NoArg
  /\ returned' = Fulfilled(GET(content))
  /\ UNCHANGED <<content, load, memo>>

NextRss == AddRssFile \/ GetRss

SpecRss == Init /\ [][NextRss]_vars

\* C18: the items GET hands to rss() are one per post of loadAll(), in the
\* order of loadAll(); item i carries the title, the date (as pubDate) and the
\* description of post i, and the link "/posts/" followed by its slug.
C18_RssItemsMirrorPosts ==
  called = "GET" =>
    \A all \in {getAllPosts(content)} :
      /\ Len(returned.value.items) = Len(all)
      /\ \A i \in 1..Len(all) :
           \A item \in {returned.value.items[i]} :
             /\ item.title = all[i].data.title
             /\ item.pubDate = all[i].data.date
             /\ item.description = all[i].data.description
             /\ item.link = "/posts/" \o all[i].slug

\* a feed of two items: the February post B first, then the January post A
C18_Witness ==
  /\ called = "GET"
  /\ Len(returned.value.items) = 2
  /\ returned.value.items[1].title = <<"B">>
  /\ returned.value.items[1].description = <<"b">>
  /\ returned.value.items[1].link = "/posts/post-b"
  /\ returned.value.items[2].title = <<"A">>
  /\ returned.value.items[2].description = <<"a">>
  /\ returned.value.items[2].link = "/posts/post-a"

\* ------------------------------------------- getAllPosts, step by step
MaxLoadPosts == 2

AddLoadFile ==
  /\ called = "none"
  /\ CountFiles(content, 1) < MaxLoadPosts
  /\ \E c \in Collections, slug \in Slugs, fm \in DatedFrontmatter :
       /\ CanWrite(c, slug)
       /\ content' = Written(c, slug, fm)
  /\ UNCHANGED <<called, arg, returned, load, memo>>

\* getAllPosts is called: const allPosts = []
StartLoad ==
  /\ load.pc # "loop"
  /\ called' = "getAllPosts"
  /\ arg' = NoArg
  /\ returned' = Pending
  /\ load' = [pc |-> "loop", reads |-> 0, inflight |-> {}, allPosts |-> <<>>]
  /\ UNCHANGED <<content, memo>>

\* a loop that calls getCollection without waiting for the call before it
ReadNotAwaited == TRUE

\* `await getCollection(collection)`: the loop goes on when the read has
\* settled, so it calls getCollection when no read is in flight
ReadAwaited == load.inflight = {}

\* the loop body calls getCollection(collection) for the next collection
StartRead ==
  /\ load.pc = "loop"
  /\ load.reads < Len(collections)
  /\ ReadAwaited
  /\ load' = [load EXCEPT !.reads = @ + 1,
                          !.inflight = @ \cup {collections[load.reads + 1]}]
  /\ UNCHANGED <<content, called, arg, returned, memo>>

\* a read settles: allPosts.push(...posts), or the empty catch
CompleteRead ==
  /\ load.pc = "loop"
  /\ \E c \in load.inflight :
       \A got \in {getCollection(content, c)} :
         load' = [load EXCEPT !.inflight = @ \ {c},
                              !.allPosts = IF got.threw THEN @
                                           ELSE @ \o got.posts]
  /\ UNCHANGED <<content, called, arg, returned, memo>>

\* after the loop: return allPosts.sort(...)
FinishLoad ==
  /\ load.pc = "loop"
  /\ load.reads = Len(collections)
  /\ load.inflight = {}
  /\ returned' = Fulfilled(ArraySort(load.allPosts))
  /\ load' = [load EXCEPT !.pc = "done"]
  /\ UNCHANGED <<content, called, arg, memo>>

NextLoad == AddLoadFile \/ StartLoad \/ StartRead \/ CompleteRead \/ FinishLoad

SpecLoad == Init /\ [][NextLoad]_vars

\* C19: whatever the order in which the reads of the collections settle, a
\* finished getAllPosts returns the one sequence the corpus determines, the
\* order among posts of equal dates included.
C19_CompletionOrderUnobservable ==
  load.pc = "done" => returned.value = getAllPosts(content)

\* a load has finished over two posts of the same date in two collections
C19_Witness ==
  /\ load.pc = "done"
  /\ Len(returned.value) = 2
  /\ returned.value[1].collection # returned.value[2].collection
  /\ returned.value[1].data.date = returned.value[2].data.date

\* ------------------------------------------------------ repeated queries
\* the files of the repeated-query scenario: blog may hold post-a and post-b,
\* both dated January; ml may hold post-a, dated February
QueryFiles(c) ==
  IF c = "blog"
  THEN {[slug |-> "post-a",
         frontmatter |-> Frontmatter(Jan, <<<<"x">>>>, <<"m", "l">>)],
        [slug |-> "post-b",
         frontmatter |-> Frontmatter(Jan, <<<<"y">>, <<"x">>>>, <<"w", "e", "b">>)]}
  ELSE IF c = "ml"
  THEN {[slug |-> "post-a",
         frontmatter |-> Frontmatter(Feb, <<<<"x">>>>, <<"m", "l">>)]}
  ELSE {}

MaxQueryPosts == 2

AddQueryFile ==
  /\ called = "none"
  /\ CountFiles(content, 1) < MaxQueryPosts
  /\ \E c \in Collections :
       \E file \in QueryFiles(c) :
         /\ CanWrite(c, file.slug)
         /\ content' = Written(c, file.slug, file.frontmatter)
  /\ UNCHANGED <<called, arg, returned, load, memo>>

\* the caller keeps the result of the call just made
Remember ==
  /\ called # "none"
  /\ memo = NoMemo
  /\ memo' = [called |-> called, arg |-> arg, returned |-> returned,
              between |-> FALSE]
  /\ UNCHANGED <<content, called, arg, returned, load>>

\* the caller notes that the call just made is not the one it has kept
NoteOther ==
  /\ memo # NoMemo
  /\ ~memo.between
  /\ called # memo.called \/ arg # memo.arg
  /\ memo' = [memo EXCEPT !.between = TRUE]
  /\ UNCHANGED <<content, called, arg, returned, load>>

NextQueries ==
  \/ AddQueryFile
  \/ GetAllPosts
  \/ GetPostsBySpace
  \/ GetPostsByTag
  \/ GetAllTags
  \/ GetLatestPosts
  \/ Remember
  \/ NoteOther

SpecQueries == Init /\ [][NextQueries]_vars

\* the call just made repeats the kept call and returned what the kept call
\* returned
MemoAgrees ==
  (called = memo.called /\ arg = memo.arg) => returned = memo.returned

\* C20: no call of getAllPosts, getPostsBySpace, getPostsByTag, getAllTags or
\* getLatestPosts changes the corpus or the order of a directory listing, and
\* a call repeated with the same arguments after other calls returns what the
\* first call returned.
C20_QueriesReadOnly ==
  /\ [][called' # "none" => content' = content]_vars
  /\ []MemoAgrees

\* getAllPosts returned two posts, another query was made, and getAllPosts
\* was called again
C20_Witness ==
  /\ memo.called = "getAllPosts"
  /\ memo.between
  /\ called = "getAllPosts"
  /\ Len(returned.value) = 2
  /\ Len(content["blog"]) = 2

\* ---------------------------------------------------- frontmatter defaults
\* frontmatter that leaves out tags, space or both, beside a complete one and
\* one whose title is a number
DefaultsFrontmatter ==
  {BaseFrontmatter,
   [BaseFrontmatter EXCEPT !.tags = Undefined],
   [BaseFrontmatter EXCEPT !.space = Undefined],
   [BaseFrontmatter EXCEPT !.tags = Undefined, !.space = Undefined],
   [BaseFrontmatter EXCEPT !.title = Number42]}

MaxDefaultsPosts == 2

AddDefaultsFile ==
  /\ called = "none"
  /\ CountFiles(content, 1) < MaxDefaultsPosts
  /\ \E c \in Collections, slug \in Slugs, fm \in DefaultsFrontmatter :
       /\ CanWrite(c, slug)
       /\ content' = Written(c, slug, fm)
  /\ UNCHANGED <<called, arg, returned, load, memo>>

NextDefaults == AddDefaultsFile \/ GetAllPosts

SpecDefaults == Init /\ [][NextDefaults]_vars

\* the keys of fm have the documented types; tags and space may be left out
KeysTyped(fm) ==
  /\ fm.title.type = "string"
  /\ fm.description.type = "string"
  /\ fm.date.type = "string"
  /\ fm.tags.type \in {"array", "undefined"}
  /\ fm.space.type \in {"string", "undefined"}

ScenarioFiles(c) ==
  (IF c \in {"blog", "ml"}
   THEN {[slug |-> "post-a",
          frontmatter |-> Frontmatter(Jan, <<<<"x">>>>, <<"m", "l">>)]}
   ELSE {})
  \cup (IF c = "blog"
        THEN {[slug |-> "post-b",
               frontmatter |-> Frontmatter(Feb, <<<<"x">>, <<"y">>>>, <<"w", "e", "b">>)]}
        ELSE IF c = "web"
        THEN {[slug |-> "post-a",
               frontmatter |-> Frontmatter(Feb, <<<<"x">>, <<"y">>>>, <<"w", "e", "b">>)]}
        ELSE {})

MaxScenarioPosts == 2

AddScenarioFile ==
  /\ called = "none"
  /\ CountFiles(content, 1) < MaxScenarioPosts
  /\ \E c \in Collections :
       \E file \in ScenarioFiles(c) :
         /\ CanWrite(c, file.slug)
         /\ content' = Written(c, file.slug, file.frontmatter)
  /\ UNCHANGED <<called, arg, returned, load, memo>>

NextScenario ==
  \/ AddScenarioFile
  \/ GetAllPosts
  \/ GetPostsBySpace
  \/ GetPostsByTag
  \/ GetAllTags

SpecScenario == Init /\ [][NextScenario]_vars

\* the files of the corpus dated date, as pairs of collection and slug
FilesDated(date) ==
  {file \in Collections \X Slugs :
     \E i \in 1..Len(content[file[1]]) :
       /\ content[file[1]][i].slug = file[2]
       /\ content[file[1]][i].frontmatter.date = Str(date)}

\* the collection and slug of each post of a list
Ids(list) == [k \in 1..Len(list) |-> <<list[k].collection, list[k].slug>>]

\* C22: over the corpus of the January post (space ml, tags [x]) and the
\* February post (space web, tags [x, y]), getAllPosts returns [Feb, Jan],
\* getPostsBySpace("ml") returns [Jan], getAllTags returns [x, y] and
\* getPostsByTag("x") returns [Feb, Jan].
C22_TwoPostScenario ==
  CountFiles(content, 1) = 2 =>
    \A jan \in FilesDated(Jan), feb \in FilesDated(Feb) :
      /\ called = "getAllPosts" => Ids(returned.value) = <<feb, jan>>
      /\ (called = "getPostsBySpace" /\ arg.v = <<"m", "l">>) =>
           Ids(returned.value) = <<jan>>
      /\ called = "getAllTags" => returned.value = <<<<"x">>, <<"y">>>>
      /\ (called = "getPostsByTag" /\ arg.v = <<"x">>) =>
           Ids(returned.value) = <<feb, jan>>

\* the January post is read before the February post, and the page of tag x
\* lists the two
C22_Witness ==
  /\ called = "getPostsByTag"
  /\ arg.v = <<"x">>
  /\ Len(returned.value) = 2
  /\ FilesDated(Jan) = {<<"blog", "post-a">>}
  /\ FilesDated(Feb) = {<<"web", "post-a">>}

\* ------------------------------------------- queries with unknown arguments
\* C23: getPostsBySpace with a space id outside the catalog, and getPostsByTag
\* with a tag no loaded post carries, fulfil with the empty sequence.
C23_UnknownArgumentsGiveEmpty ==
  /\ (called = "getPostsBySpace" /\ arg.v \notin SpaceCatalogIds) =>
       returned = Fulfilled(<<>>)
  /\ (called = "getPostsByTag" /\ arg.v \notin LoadedTags(content)) =>
       returned = Fulfilled(<<>>)

\* --------------------------------------------- order of space and tag pages
\* space pages and tag pages over corpora with valid and invalid dates
NextPages == AddDatedFile \/ GetPostsBySpace \/ GetPostsByTag

SpecPages == Init /\ [][NextPages]_vars

\* C24: the list getPostsBySpace or getPostsByTag returns is sorted
\* non-increasing by date: each post's date is >= the date of the post after it.
C24_PagesSortedByDate ==
  called \in {"getPostsBySpace", "getPostsByTag"} =>
    \A i \in 1..(Len(returned.value) - 1) :
      NumGe(GetTime(returned.value[i].data.date),
            GetTime(returned.value[i + 1].data.date))

\* ------------------------------------------------------ ties of getAllPosts
\* the files of the tie scenario: posts dated February in four collections,
\* beside a January post in blog and a post dated 'soon' in transformers
TieFiles(c) ==
  IF c = "blog"
  THEN {[slug |-> "post-a", frontmatter |-> Frontmatter(Jan, <<<<"x">>>>, <<"m", "l">>)],
        [slug |-> "post-b", frontmatter |-> Frontmatter(Feb, <<<<"x">>>>, <<"m", "l">>)]}
  ELSE IF c = "ml"
  THEN {[slug |-> "post-a", frontmatter |-> Frontmatter(Feb, <<<<"x">>>>, <<"m", "l">>)],
        [slug |-> "post-b", frontmatter |-> Frontmatter(Feb, <<<<"x">>>>, <<"m", "l">>)]}
  ELSE IF c = "transformers"
  THEN {[slug |-> "post-a", frontmatter |-> Frontmatter(Soon, <<<<"x">>>>, <<"m", "l">>)]}
  ELSE {[slug |-> "post-a", frontmatter |-> Frontmatter(Feb, <<<<"x">>>>, <<"m", "l">>)]}

MaxTiePosts == 7

AddTieFile ==
  /\ called = "none"
  /\ CountFiles(content, 1) < MaxTiePosts
  /\ \E c \in Collections :
       \E file \in TieFiles(c) :
         /\ CanWrite(c, file.slug)
         /\ content' = Written(c, file.slug, file.frontmatter)
  /\ UNCHANGED <<called, arg, returned, load, memo>>

NextTie == AddTieFile \/ GetAllPosts

SpecTie == Init /\ [][NextTie]_vars

\* the place of a collection in `collections`
GroupIndex(c) == CHOOSE i \in 1..Len(collections) : collections[i] = c

\* the place of a post's file in the listing of its directory
FileIndex(post) ==
  CHOOSE i \in 1..Len(content[post.collection]) :
    content[post.collection][i].slug = post.slug

\* a comes before b in the concatenation of the collections
GroupThenFileOrder(a, b) ==
  \/ GroupIndex(a.collection) < GroupIndex(b.collection)
  \/ /\ a.collection = b.collection
     /\ FileIndex(a) < FileIndex(b)

\* C25: two posts of equal dates are in the list getAllPosts returns in
\* group-then-file order: by the place of their collection in blog, ml,
\* transformers, web, notes, and within a collection by their place in its
\* listing.
C25_TiesInGroupThenFileOrder ==
  Loaded =>
    \A i, j \in 1..Len(posts) :
      (/\ i < j
       /\ ~GetTime(posts[i].data.date).nan
       /\ GetTime(posts[i].data.date) = GetTime(posts[j].data.date)) =>
        GroupThenFileOrder(posts[i], posts[j])

\* ------------------------------------------------- tag pages of every post
\* the tag pages over corpora with posts that leave out tags
NextTagPages == AddDefaultsFile \/ GetAllTags

SpecTagPages == Init /\ [][NextTagPages]_vars

\* C26: every post of getAllPosts() is on the page of at least one tag of
\* getAllTags(): some tag t of the list has the post in getPostsByTag(t).
C26_EveryPostOnATagPage ==
  called = "getAllTags" =>
    \A post \in Elements(getAllPosts(content)) :
      \E k \in 1..Len(returned.value) :
        post \in Elements(getPostsByTag(content, returned.value[k]))

\* -------------------------------------------------------- links of the feed
\* C27: the links of the items GET hands to rss() are pairwise distinct, also
\* for two posts of different collections.
C27_RssLinksDistinct ==
  called = "GET" =>
    \A i, j \in 1..Len(returned.value.items) :
      i # j => returned.value.items[i].link # returned.value.items[j].link

\* ------------------------------------------------- limits of getLatestPosts
\* C28: for an integer limit, getLatestPosts(limit) returns at most
\* max(limit, 0) posts; limit = 0 and negative limits give the empty list.
C28_AtMostLimitPosts ==
  (called = "getLatestPosts" /\ arg.type = "number") =>
    Len(returned.value) <= (IF arg.n > 0 THEN arg.n ELSE 0)

\* ------------------------------------- generateBreadcrumbs, getSpaceTitle
\* ToBoolean of a value: undefined and the empty string are falsy
Truthy(x) ==
  IF x.type = "undefined" THEN FALSE
  ELSE IF x.type = "string" THEN x.v # <<>>
  ELSE TRUE

Home == [label |-> <<"H", "o", "m", "e">>, href |-> <<"/">>]

Spaces ==
  [label |-> <<"S", "p", "a", "c", "e", "s">>,
   href |-> <<"/", "s", "p", "a", "c", "e", "s">>]

\* generateBreadcrumbs(space?, postTitle?)
generateBreadcrumbs(space, postTitle) ==
  LET breadcrumbs == <<Home>>
      afterSpace ==
        IF Truthy(space)
        THEN breadcrumbs \o
             <<Spaces,
               [label |-> space.v,
                href |-> <<"/", "s", "p", "a", "c", "e", "s", "/">> \o space.v]>>
        ELSE breadcrumbs
  IN IF Truthy(postTitle)
     THEN Append(afterSpace, [label |-> postTitle.v, href |-> <<"#">>])
     ELSE afterSpace

\* the own properties of the object literal `titles`
OwnTitle(key) ==
  IF key = <<"m", "l">>
  THEN Str(<<"M", "a", "c", "h", "i", "n", "e", " ", "L", "e", "a", "r", "n",
            "i", "n", "g">>)
  ELSE IF key = <<"t", "r", "a", "n", "s", "f", "o", "r", "m", "e", "r", "s">>
  THEN Str(<<"T", "r", "a", "n", "s", "f", "o", "r", "m", "e", "r", "s">>)
  ELSE IF key = <<"w", "e", "b">>
  THEN Str(<<"W", "e", "b", " ", "D", "e", "v", "e", "l", "o", "p", "m", "e",
            "n", "t">>)
  ELSE IF key = <<"n", "o", "t", "e", "s">>
  THEN Str(<<"G", "e", "n", "e", "r", "a", "l", " ", "N", "o", "t", "e", "s">>)
  ELSE IF key = <<"b", "l", "o", "g">>
  THEN Str(<<"B", "l", "o", "g">>)
  ELSE Undefined

\* names every object inherits from Object.prototype
ObjectPrototypeKeys ==
  {<<"c", "o", "n", "s", "t", "r", "u", "c", "t", "o", "r">>,
   <<"t", "o", "S", "t", "r", "i", "n", "g">>,
   <<"v", "a", "l", "u", "e", "O", "f">>,
   <<"h", "a", "s", "O", "w", "n", "P", "r", "o", "p", "e", "r", "t", "y">>,
   <<"i", "s", "P", "r", "o", "t", "o", "t", "y", "p", "e", "O", "f">>,
   <<"p", "r", "o", "p", "e", "r", "t", "y", "I", "s", "E", "n", "u", "m",
     "e", "r", "a", "b", "l", "e">>,
   <<"t", "o", "L", "o", "c", "a", "l", "e", "S", "t", "r", "i", "n", "g">>,
   <<"_", "_", "p", "r", "o", "t", "o", "_", "_">>}

\* an inherited member of Object.prototype: a function or an object
Inherited(key) == [type |-> "object", v |-> key]

\* titles[spaceId]: the own property, else the one inherited, else undefined
TitlesGet(key) ==
  IF OwnTitle(key) # Undefined THEN OwnTitle(key)
  ELSE IF key \in ObjectPrototypeKeys THEN Inherited(key)
  ELSE Undefined

\* getSpaceTitle(spaceId): titles[spaceId] || spaceId
getSpaceTitle(spaceId) ==
  IF Truthy(TitlesGet(spaceId)) THEN TitlesGet(spaceId) ELSE Str(spaceId)

\* the two arguments of a call
PairArg(a, b) == [type |-> "pair", v |-> <<a, b>>, n |-> 0]

MaxTitleLen == 2

\* the strings of at most MaxTitleLen characters over three characters
TitleStrings ==
  UNION {[1..k -> {"T", "a", " "}] : k \in 0..MaxTitleLen}

\* the post titles a page passes: none, or a string
TitleArgs == {Undefined} \cup {Str(t) : t \in TitleStrings}

\* the spaces a page passes: none, the empty string, or a space id
CrumbSpaceArgs == {Undefined, Str(<<>>)} \cup {Str(space) : space \in SpaceArgs}

\* the ids a page asks the title of
SpaceIdArgs ==
  SpaceArgs \cup {<<>>, <<"c", "o", "n", "s", "t", "r", "u", "c", "t", "o", "r">>,
                  <<"t", "o", "S", "t", "r", "i", "n", "g">>}

GenerateBreadcrumbs ==
  \E space \in CrumbSpaceArgs, postTitle \in TitleArgs :
    /\ called' = "generateBreadcrumbs"
    /\ arg' = PairArg(space, postTitle)
    /\ returned' = Fulfilled(generateBreadcrumbs(space, postTitle))
    /\ UNCHANGED <<content, load, memo>>

GetSpaceTitle ==
  \E spaceId \in SpaceIdArgs :
    /\ called' = "getSpaceTitle"
    /\ arg' = StrArg(spaceId)
    /\ returned' = Fulfilled(getSpaceTitle(spaceId))
    /\ UNCHANGED <<content, load, memo>>

NextHelpers == GenerateBreadcrumbs \/ GetSpaceTitle

SpecHelpers == Init /\ [][NextHelpers]_vars

\* an argument was passed
Given(x) == x.type # "undefined"

\* C29: the trail of generateBreadcrumbs(space, postTitle) has
\* 1 + 2*[space given] + [postTitle given] crumbs; the first is Home ("/");
\* when space is given, Spaces ("/spaces") and the space ("/spaces/{space}")
\* follow; when postTitle is given, the last crumb is the title with href "#".
C29_BreadcrumbTrail ==
  called = "generateBreadcrumbs" =>
    \A space \in {arg.v[1]}, postTitle \in {arg.v[2]}, trail \in {returned.value} :
      /\ Len(trail) = 1 + (IF Given(space) THEN 2 ELSE 0)
                        + (IF Given(postTitle) THEN 1 ELSE 0)
      /\ trail[1] = [label |-> <<"H", "o", "m", "e">>, href |-> <<"/">>]
      /\ Given(space) =>
           /\ trail[2] = [label |-> <<"S", "p", "a", "c", "e", "s">>,
                          href |-> <<"/", "s", "p", "a", "c", "e", "s">>]
           /\ trail[3] =
                [label |-> space.v,
                 href |-> <<"/", "s", "p", "a", "c", "e", "s", "/">> \o space.v]
      /\ Given(postTitle) =>
           trail[Len(trail)] = [label |-> postTitle.v, href |-> <<"#">>]

\* C30: getSpaceTitle returns the display title of each of the five known
\* ids, and the id itself, unchanged, for every other id.
C30_SpaceTitleOrId ==
  called = "getSpaceTitle" =>
    returned =
      Fulfilled(
       IF arg.v = <<"m", "l">>
       THEN Str(<<"M", "a", "c", "h", "i", "n", "e", " ", "L", "e", "a", "r",
                 "n", "i", "n", "g">>)
       ELSE IF arg.v = <<"t", "r", "a", "n", "s", "f", "o", "r", "m", "e", "r", "s">>
       THEN Str(<<"T", "r", "a", "n", "s", "f", "o", "r", "m", "e", "r", "s">>)
       ELSE IF arg.v = <<"w", "e", "b">>
       THEN Str(<<"W", "e", "b", " ", "D", "e", "v", "e", "l", "o", "p", "m",
                 "e", "n", "t">>)
       ELSE IF arg.v = <<"n", "o", "t", "e", "s">>
       THEN Str(<<"G", "e", "n", "e", "r", "a", "l", " ", "N", "o", "t", "e",
                 "s">>)
       ELSE IF arg.v = <<"b", "l", "o", "g">>
       THEN Str(<<"B", "l", "o", "g">>)
       ELSE Str(arg.v))

====
